---- MODULE Spec2Model ----
(***************************************************************************)
(* DagBot frontend: the chat hook (useChat), the SSE client (streamChat)   *)
(* and the parts of App / ChatArea that drive them.                        *)
(*                                                                         *)
(* A string is a sequence of characters, each written as a TLA+ string    *)
(* ("a", or "U+E9" for e-acute); a response is a sequence of bytes (an     *)
(* ASCII character is its own byte, e-acute is the two bytes "0xC3" and    *)
(* "0xA9"), so that it can be cut into read chunks at any byte.            *)
(* null / undefined is the empty option <<>>, a present value v is <<v>>.  *)
(*                                                                         *)
(* React state is modelled as committed at the end of the handler that     *)
(* sets it: a handler's closure (useCallback deps [messages], [chat, ...]) *)
(* sees the state of the last render, which is the current state whenever  *)
(* a handler starts.                                                       *)
(***************************************************************************)
EXTENDS Integers, Sequences, FiniteSets, TLC

\* ---------------------------------------------------------------- bounds
\* sendMessage calls in one run (sessions are numbered 1..MaxSessions)
MaxSessions == 2
\* event lines in one response of the stream-only specification
MaxEvents == 2
\* files attached to one message
MaxAttachments == 2
\* handleSelectConversation calls under way at one time, and
\* removeConversation calls under way at one time
MaxSelects == 1
MaxRemoves == 1

Sessions == 1..MaxSessions

\* ------------------------------------------------------------ option type
Null == <<>>
Some(v) == <<v>>

\* -------------------------------------------------------- the wire format
\* '\n', the line separator of buffer.split('\n')
NL == "\n"
\* 'data: ', the prefix tested by line.startsWith and cut by line.slice(6)
DataPrefix == <<"d", "a", "t", "a", ":", " ">>

\* Events a server can put on a line.  k is the shape of the line:
\*   token / conversation_id / done / error : a JSON object with that type
\*   unknown   : a JSON object with some other type and no error field
\*   errfield  : a JSON object with no known type and a truthy error field
\*   nulljson  : the JSON value null (not an object)
\*   badjson   : text after 'data: ' that is not JSON
\*   comment   : a line without the 'data: ' prefix (an SSE keep-alive)
Tok(c) == [k |-> "token", v |-> c]
ConvEv(id) == [k |-> "conversation_id", v |-> id]
DoneEv == [k |-> "done", v |-> <<>>]
ErrEv(m) == [k |-> "error", v |-> m]
UnknownEv == [k |-> "unknown", v |-> <<>>]
ErrFieldEv(m) == [k |-> "errfield", v |-> m]
NullJsonEv == [k |-> "nulljson", v |-> <<>>]
BadJsonEv == [k |-> "badjson", v |-> <<>>]
CommentEv == [k |-> "comment", v |-> <<>>]

\* JSON text, abstracted: an object is '{' tag value '}', where the tag
\* stands for the members that name its type; null is 'n'.
TagOf(k) ==
    CASE k = "token" -> "t"
      [] k = "conversation_id" -> "c"
      [] k = "done" -> "d"
      [] k = "error" -> "e"
      [] k = "unknown" -> "u"
      [] OTHER -> "x"

KindOfTag(t) ==
    CASE t = "t" -> "token"
      [] t = "c" -> "conversation_id"
      [] t = "d" -> "done"
      [] t = "e" -> "error"
      [] t = "u" -> "unknown"
      [] OTHER -> "errfield"

JsonTags == {"t", "c", "d", "e", "u", "x"}

\* The line a server writes for an event, without its '\n'.
EncodeLine(ev) ==
    CASE ev.k = "comment" -> <<":">>
      [] ev.k = "badjson" -> DataPrefix \o <<"{", "t">>
      [] ev.k = "nulljson" -> DataPrefix \o <<"n">>
      [] OTHER -> DataPrefix \o <<"{", TagOf(ev.k)>> \o ev.v \o <<"}">>

RECURSIVE EncodeLines(_)
EncodeLines(evs) ==
    IF evs = <<>> THEN <<>>
    ELSE EncodeLine(Head(evs)) \o <<NL>> \o EncodeLines(Tail(evs))

\* UTF-8: the bytes of a text.
RECURSIVE Utf8(_)
Utf8(text) ==
    IF text = <<>> THEN <<>>
    ELSE (IF Head(text) = "U+E9" THEN <<"0xC3", "0xA9">> ELSE <<Head(text)>>)
         \o Utf8(Tail(text))

\* The bytes of a response: every line ends in '\n', except that the last
\* '\n' is missing when terminated is FALSE.
WireOf(evs, terminated) ==
    LET w == Utf8(EncodeLines(evs))
    IN  IF terminated \/ w = <<>> THEN w ELSE SubSeq(w, 1, Len(w) - 1)


\* ------------------------------------------------- streamChat: one chunk
\* decoder.decode(value, { stream: true }): the characters of the bytes seen
\* so far; a lead byte at the end of a chunk is kept (pending) for the next
\* call, and a lead byte not followed by its continuation byte decodes to
\* U+FFFD.
RECURSIVE Utf8Decode(_, _, _)
Utf8Decode(pending, bytes, out) ==
    IF bytes = <<>> THEN [text |-> out, pending |-> pending]
    ELSE IF pending # <<>>
    THEN IF Head(bytes) = "0xA9"
         THEN Utf8Decode(<<>>, Tail(bytes), Append(out, "U+E9"))
         ELSE Utf8Decode(<<>>, bytes, Append(out, "U+FFFD"))
    ELSE IF Head(bytes) = "0xC3"
    THEN Utf8Decode(<<"0xC3">>, Tail(bytes), out)
    ELSE IF Head(bytes) = "0xA9"
    THEN Utf8Decode(<<>>, Tail(bytes), Append(out, "U+FFFD"))
    ELSE Utf8Decode(<<>>, Tail(bytes), Append(out, Head(bytes)))

\* buffer.split('\n'): the pieces between the separators, in order; the
\* piece after the last separator is the last element (empty when the text
\* ends in '\n').
RECURSIVE SplitAcc(_, _, _)
SplitAcc(text, cur, acc) ==
    IF text = <<>> THEN Append(acc, cur)
    ELSE IF Head(text) = NL THEN SplitAcc(Tail(text), <<>>, Append(acc, cur))
    ELSE SplitAcc(Tail(text), Append(cur, Head(text)), acc)

Split(text) == SplitAcc(text, <<>>, <<>>)

\* a bug that forgets the unfinished line instead of keeping it
PoppedForgotten(parts) == <<>>

\* buffer = lines.pop() || ''
Popped(parts) == parts[Len(parts)]

\* lines, after lines.pop()
CompleteLines(parts) == SubSeq(parts, 1, Len(parts) - 1)

\* line.startsWith('data: ')
StartsWithData(line) ==
    /\ Len(line) >= Len(DataPrefix)
    /\ SubSeq(line, 1, Len(DataPrefix)) = DataPrefix

\* line.slice(6)
Slice6(line) == SubSeq(line, Len(DataPrefix) + 1, Len(line))

\* JSON.parse: ok is FALSE when it throws; obj is FALSE for null.
JsonParse(text) ==
    IF text = <<"n">>
    THEN [ok |-> TRUE, obj |-> FALSE, k |-> "null", v |-> <<>>]
    ELSE IF /\ Len(text) >= 3
            /\ text[1] = "{"
            /\ text[Len(text)] = "}"
            /\ text[2] \in JsonTags
    THEN [ok |-> TRUE, obj |-> TRUE, k |-> KindOfTag(text[2]),
          v |-> SubSeq(text, 3, Len(text) - 1)]
    ELSE [ok |-> FALSE, obj |-> FALSE, k |-> "invalid", v |-> <<>>]

\* The body of the for loop for one line: the callback invocations it makes
\* (none or one).  A line without the prefix is skipped; a JSON.parse that
\* throws, or data.type read on null, lands in the empty catch.
Dispatch(line) ==
    IF ~StartsWithData(line) THEN <<>>
    ELSE LET data == JsonParse(Slice6(line))
         IN  IF ~data.ok \/ ~data.obj THEN <<>>
             ELSE CASE data.k = "token" -> <<[cb |-> "onToken", arg |-> data.v]>>
                    [] data.k = "conversation_id" ->
                           <<[cb |-> "onConversationId", arg |-> data.v]>>
                    [] data.k = "done" -> <<[cb |-> "onDone", arg |-> data.v]>>
                    [] data.k = "error" -> <<[cb |-> "onError", arg |-> data.v]>>
                    [] data.k = "errfield" -> <<[cb |-> "onError", arg |-> data.v]>>
                    [] OTHER -> <<>>

\* for (const line of lines): the invocations of all lines, in order
RECURSIVE DispatchAll(_)
DispatchAll(lines) ==
    IF lines = <<>> THEN <<>>
    ELSE Dispatch(Head(lines)) \o DispatchAll(Tail(lines))


\* ------------------------------------------------------ useChat callbacks
\* a bug that overwrites the text instead of extending it
AppendTokenOverwrite(content, token) == token

\* currentContent + token
AppendToken(content, token) == content \o token

\* onToken: nothing when abortRef.current; else the setMessages updater,
\* which extends the last message when it is an assistant message.
OnToken(msgs, token, abort) ==
    IF abort THEN msgs
    ELSE IF Len(msgs) > 0 /\ msgs[Len(msgs)].role = "assistant"
    THEN [msgs EXCEPT ![Len(msgs)].content = AppendToken(@, token)]
    ELSE msgs

\* The hook state a callback can change.
HookState(msgs, streaming, err, convRef) ==
    [messages |-> msgs, isStreaming |-> streaming, error |-> err,
     convIdRef |-> convRef]

\* One callback invocation on the hook state.
ApplyCall(h, call, abort) ==
    CASE call.cb = "onToken" ->
             [h EXCEPT !.messages = OnToken(@, call.arg, abort)]
      [] call.cb = "onConversationId" ->
             [h EXCEPT !.convIdRef = Some(call.arg)]
      [] call.cb = "onDone" ->
             [h EXCEPT !.isStreaming = FALSE]
      [] OTHER ->
             [h EXCEPT !.error = Some(call.arg), !.isStreaming = FALSE]

RECURSIVE ApplyCalls(_, _, _)
ApplyCalls(h, calls, abort) ==
    IF calls = <<>> THEN h
    ELSE ApplyCalls(ApplyCall(h, Head(calls), abort), Tail(calls), abort)

\* the token arguments among some invocations, in order
RECURSIVE TokenArgs(_)
TokenArgs(calls) ==
    IF calls = <<>> THEN <<>>
    ELSE IF Head(calls).cb = "onToken"
    THEN <<Head(calls).arg>> \o TokenArgs(Tail(calls))
    ELSE TokenArgs(Tail(calls))

\* ------------------------------------------------------- the chat request
\* updatedMessages.map((m) => ({ role: m.role, content: m.content }))
ToWire(m) == [role |-> m.role, content |-> m.content]

\* a bug that sends the list as it is after the placeholder was added
UpdatedMessagesWithPlaceholder(msgs, content) ==
    msgs \o << [role |-> "user", content |-> content, sid |-> 0],
               [role |-> "assistant", content |-> <<>>, sid |-> 0] >>

\* const updatedMessages = [...messages, userMessage]
UpdatedMessages(msgs, content) ==
    msgs \o << [role |-> "user", content |-> content, sid |-> 0] >>

\* systemPrompt || undefined
OrUndefined(text) == IF text = <<>> THEN Null ELSE Some(text)

\* a request built from the default settings instead of the current ones
RequestOfDefaults(st, msgs, content, conv, sp) ==
    [provider |-> "openrouter",
     model |-> <<"a", ":", "f", "r", "e", "e">>,
     messages |-> [i \in 1..Len(UpdatedMessages(msgs, content)) |->
                      ToWire(UpdatedMessages(msgs, content)[i])],
     system_prompt |-> sp,
     conversation_id |-> conv,
     temperature |-> st.temperature]

\* The body streamChat posts for sendMessage(content, st, conv, sp).  Of
\* the five sampling parameters only temperature is kept: top_p,
\* max_tokens and the two penalties are copied field by field in the same
\* way.
RequestOf(st, msgs, content, conv, sp) ==
    [provider |-> st.provider,
     model |-> st.model,
     messages |-> [i \in 1..Len(UpdatedMessages(msgs, content)) |->
                      ToWire(UpdatedMessages(msgs, content)[i])],
     system_prompt |-> sp,
     conversation_id |-> conv,
     temperature |-> st.temperature]

\* ------------------------------------------------------- strings of models
\* toLowerCase, on the letters model names are written with here
Lower(text) ==
    [i \in 1..Len(text) |->
        CASE text[i] = "B" -> "b"
          [] text[i] = "F" -> "f"
          [] text[i] = "R" -> "r"
          [] text[i] = "E" -> "e"
          [] OTHER -> text[i]]

\* text.includes(sub)
Includes(text, sub) ==
    \E i \in 1..(Len(text) - Len(sub) + 1) :
        SubSeq(text, i, i + Len(sub) - 1) = sub

\* text.endsWith(suffix)
EndsWith(text, suffix) ==
    /\ Len(text) >= Len(suffix)
    /\ SubSeq(text, Len(text) - Len(suffix) + 1, Len(text)) = suffix

\* 'free' and ':free'
FreeWord == <<"f", "r", "e", "e">>
FreeMarker == <<":", "f", "r", "e", "e">>

\* 'openrouter/auto'
AutoAlias ==
    <<"o", "p", "e", "n", "r", "o", "u", "t", "e", "r", "/", "a", "u", "t", "o">>

\* model names
Afree == <<"a", ":", "f", "r", "e", "e">>
Bmodel == <<"b">>
Cfree == <<"c", ":", "f", "r", "e", "e">>
Dmodel == <<"d">>
Freeze == <<"f", "r", "e", "e", "z", "e">>
Gpt4 == <<"g", "p", "t", "-", "4">>

\* text.trim(), for texts padded with spaces
RECURSIVE TrimStart(_)
TrimStart(text) ==
    IF text # <<>> /\ Head(text) = " " THEN TrimStart(Tail(text)) ELSE text

RECURSIVE TrimEnd(_)
TrimEnd(text) ==
    IF text # <<>> /\ text[Len(text)] = " "
    THEN TrimEnd(SubSeq(text, 1, Len(text) - 1)) ELSE text

Trim(text) == TrimEnd(TrimStart(text))

\* text.startsWith(prefix)
StartsWith(text, prefix) ==
    /\ Len(text) >= Len(prefix)
    /\ SubSeq(text, 1, Len(prefix)) = prefix

\* ------------------------------------------------------------ attachments
\* A File: its name, its type (the MIME type the browser gives it, '' when
\* it knows none) and data, what reading the file yields.
Png ==
    [name |-> <<"p", ".", "p", "n", "g">>,
     type |-> <<"i", "m", "a", "g", "e", "/", "p", "n", "g">>,
     data |-> <<"P">>]
Txt ==
    [name |-> <<"n", ".", "t", "x", "t">>,
     type |-> <<"t", "e", "x", "t", "/", "p", "l", "a", "i", "n">>,
     data |-> <<"T">>]
Md ==
    [name |-> <<"r", ".", "m", "d">>,
     type |-> <<>>,
     data |-> <<"M">>]
Pdf ==
    [name |-> <<"d", ".", "p", "d", "f">>,
     type |-> <<"a", "p", "p", "l", "i", "c", "a", "t", "i", "o", "n", "/",
                "p", "d", "f">>,
     data |-> <<"D">>]

Files == {Png, Txt, Md, Pdf}

\* file.type.startsWith('image/')
IsImage(file) == StartsWith(file.type, <<"i", "m", "a", "g", "e", "/">>)

\* file.type.startsWith('text/') || file.name.endsWith('.ts') ||
\* file.name.endsWith('.tsx') || file.name.endsWith('.js') ||
\* file.name.endsWith('.json') || file.name.endsWith('.md')
IsTextFile(file) ==
    \/ StartsWith(file.type, <<"t", "e", "x", "t", "/">>)
    \/ EndsWith(file.name, <<".", "t", "s">>)
    \/ EndsWith(file.name, <<".", "t", "s", "x">>)
    \/ EndsWith(file.name, <<".", "j", "s">>)
    \/ EndsWith(file.name, <<".", "j", "s", "o", "n">>)
    \/ EndsWith(file.name, <<".", "m", "d">>)

\* reader.result of readAsDataURL: 'data:' type ';base64,' data
DataUrl(file) ==
    <<"d", "a", "t", "a", ":">> \o file.type
    \o <<";", "b", "a", "s", "e", "6", "4", ",">> \o file.data

\* `File: ${file.name}\n\n${text}`
FileText(file) ==
    <<"F", "i", "l", "e", ":", " ">> \o file.name \o <<NL, NL>> \o file.data

\* the for loop over the attachments: the parts it pushes, in order
RECURSIVE FileParts(_)
FileParts(atts) ==
    IF atts = <<>> THEN <<>>
    ELSE (IF IsImage(Head(atts))
          THEN << [type |-> "image_url",
                   image_url |-> [url |-> DataUrl(Head(atts))]] >>
          ELSE IF IsTextFile(Head(atts))
          THEN << [type |-> "text", text |-> FileText(Head(atts))] >>
          ELSE <<>>)
         \o FileParts(Tail(atts))

\* if (content.trim()) parts.push({ type: 'text', text: content })
TextPart(content) ==
    IF Trim(content) # <<>> THEN << [type |-> "text", text |-> content] >>
    ELSE <<>>

\* the file reads that sendMessage awaits: none for a file that is neither
\* an image nor a text file
Awaits(atts) == \E i \in DOMAIN atts : IsImage(atts[i]) \/ IsTextFile(atts[i])

\* a part list that puts the typed text after the files
MessageContentTextLast(content, atts) ==
    IF Len(atts) > 0 THEN [parts |-> FileParts(atts) \o TextPart(content)]
    ELSE content

\* messageContent: the typed string, or with attachments the part list
\* (written [parts |-> list] to tell an empty list from an empty string)
MessageContent(content, atts) ==
    IF Len(atts) > 0 THEN [parts |-> TextPart(content) \o FileParts(atts)]
    ELSE content

\* ------------------------------------------------------------- providers
\* A Provider, reduced to the fields the handlers read; models is [] for a
\* provider without a static list (p.models || []).
OpenRouter ==
    [name |-> "openrouter", is_custom |-> FALSE, default_model |-> Afree,
     models |-> <<Afree, Bmodel>>]
Mine ==
    [name |-> "mine", is_custom |-> TRUE, default_model |-> Dmodel,
     models |-> <<>>]

ProviderNames == {"openrouter", "mine"}

\* what GET /api/providers/{name}/models answers when it succeeds
ListedModels(n) ==
    IF n = "openrouter" THEN <<Bmodel, Cfree, Freeze>> ELSE <<Bmodel, Dmodel>>

\* -------------------------------------------------------------- settings
\* DEFAULT_SETTINGS (its model is the default model of openrouter)
DEFAULT_SETTINGS ==
    [provider |-> "openrouter",
     model |-> Afree,
     temperature |-> "0.7",
     provider_options |->
         [n \in ProviderNames |-> [free_only |-> FALSE, auto_choose |-> FALSE]]]

\* { ...prev, ...partial }
Merge(prev, partial) ==
    [f \in DOMAIN prev |-> IF f \in DOMAIN partial THEN partial[f] ELSE prev[f]]

\* getOption: settings.provider_options?.[providerName]?.[key] ?? false.
\* An option that was never written reads as false and is kept as FALSE.
GetOption(st, n, key) == st.provider_options[n][key]

\* updateOption: the partial it hands to onSettingsChange
UpdateOption(st, n, key, val) ==
    [provider_options |->
        [st.provider_options EXCEPT
            ![n] = [f \in {"free_only", "auto_choose"} |->
                       IF f = key THEN val ELSE st.provider_options[n][f]]]]

\* ----------------------------------------------------- the model list
\* Array.from(new Set(list)): first occurrences, in order
RECURSIVE Dedupe(_, _)
Dedupe(list, seen) ==
    IF list = <<>> THEN <<>>
    ELSE IF Head(list) \in seen THEN Dedupe(Tail(list), seen)
    ELSE <<Head(list)>> \o Dedupe(Tail(list), seen \cup {Head(list)})

\* dynamicModels[p.name] || []
DynamicOf(dyn, n) == IF dyn[n] = Null THEN <<>> ELSE dyn[n][1]

\* combinedModels
CombinedModels(p, dyn) == Dedupe(p.models \o DynamicOf(dyn, p.name), {})

\* m.toLowerCase().includes('free') || m.toLowerCase().endsWith(':free')
IsFree(m) == Includes(Lower(m), FreeWord) \/ EndsWith(Lower(m), FreeMarker)

\* m.toLowerCase().includes(q) with q = modelSearch.toLowerCase()
Matches(m, search) == Includes(Lower(m), Lower(search))

\* a filter that forgets free_only
FilteredUnfiltered(list, freeOnly, search) == list

\* filtered: the buttons of the model list
Filtered(list, freeOnly, search) ==
    LET free == IF freeOnly THEN SelectSeq(list, IsFree) ELSE list
    IN  IF search # <<>> THEN SelectSeq(free, LAMBDA m : Matches(m, search))
        ELSE free

\* ------------------------------------------------- the conversation store
\* The conversations the backend holds at start: an exchange each, the
\* first with a system prompt, the second without (system_prompt null).
Conv1 ==
    [id |-> <<"1">>,
     system_prompt |-> Some(<<"S">>),
     messages |-> << [role |-> "user", content |-> <<"q">>],
                     [role |-> "assistant", content |-> <<"A">>] >>]
Conv2 ==
    [id |-> <<"2">>,
     system_prompt |-> Null,
     messages |-> << [role |-> "user", content |-> <<"r">>],
                     [role |-> "assistant", content |-> <<"B">>] >>]

ConvIds == { <<"1">>, <<"2">> }

\* the store holds a conversation of that id
Has(store, id) == \E i \in DOMAIN store : store[i].id = id

\* GET /api/conversations/{id}, for an id the store holds
DetailOf(store, id) == store[CHOOSE i \in DOMAIN store : store[i].id = id]

\* GET /api/conversations: the sidebar rows, reduced to their ids
ListOf(store) == [i \in DOMAIN store |-> store[i].id]

\* DELETE /api/conversations/{id}: a hard delete
StoreDelete(store, id) == SelectSeq(store, LAMBDA c : c.id # id)

\* detail.messages.map(m => ({ role, content, ... })), as chat messages
LoadedMessages(detail) ==
    [i \in DOMAIN detail.messages |->
        [role |-> detail.messages[i].role,
         content |-> detail.messages[i].content,
         sid |-> 0]]

\* ------------------------------------------------------------------ state
VARIABLES
    \* useChat
    messages,      \* useState<ChatMessage[]>; sid is a ghost field: the
                   \* session whose sendMessage created the message (0: none)
    isStreaming,   \* useState(false)
    error,         \* useState<string | null>
    abortRef,      \* useRef(false)
    convIdRef,     \* useRef<string | undefined>
    \* App
    activeConvId,  \* useState<string | undefined>
    view,          \* useState<ViewMode>('chat')
    settings,      \* useState<ChatSettings>
    systemPrompt,  \* useState('')
    chatInput,     \* useState(''), the text of the input box
    localStorage,  \* the item 'dagbot_settings' (Null: never written)
    \* useProviders
    providers,     \* useState<Provider[]>([])
    \* SettingsPanel (mounted only while view = 'settings'): a record of its
    \* useState values expanded, results, testing, mi, modelSearch,
    \* fetchingModels, dynamicModels
    panel,
    \* the backend's provider registry and the requests it has not answered
    registry,
    pending,
    \* ChatArea (mounted only while view = 'chat')
    attachments,   \* useState<File[]>([])
    \* useConversations
    activeConversation,  \* useState<ConversationDetail | null>
    conversations,       \* useState<Conversation[]>([]), as a list of ids
    \* the backend's conversations and the requests about them that it has
    \* not answered
    convStore,
    convPending,
    \* one record per sendMessage call: where the call is, and its response
    sess,
    \* ghosts (history only; no action reads them)
    cbLog,         \* per session: the callback invocations streamChat made
    accepted,      \* per session: the tokens onToken did not drop
    stopped,       \* per session: stopStreaming was called while in flight
    alone,         \* per session: nothing else touched the list since it began
    dropSet,       \* sessions with a token dropped since abortRef was last reset
    deleteLog,     \* the providers api.deleteProvider was called for
    settled        \* the last test or refresh that settled, and how

vars == <<messages, isStreaming, error, abortRef, convIdRef, activeConvId,
          view, activeConversation, sess, cbLog, accepted, stopped, alone,
          dropSet, settings, systemPrompt, localStorage, providers, panel,
          registry, pending, deleteLog, settled, chatInput, attachments,
          conversations, convStore, convPending>>

\* the chat hook and the conversation it shows
chat == <<messages, isStreaming, error, abortRef, convIdRef, activeConvId,
          activeConversation, sess, cbLog, accepted, stopped, alone, dropSet>>

\* what the settings panel and the provider hook own
cfg == <<settings, systemPrompt, localStorage, providers, panel, registry,
         pending, deleteLog, settled>>

\* what only the sidebar handlers of App change
nav == <<view, activeConversation>>

\* the input box and the attached files
compose == <<chatInput, attachments>>

\* the conversation list, the store behind it and the requests to it
convs == <<conversations, convStore, convPending>>

ghosts == <<cbLog, accepted, stopped, alone, dropSet>>

\* st: idle (not called yet), reading (awaiting the read of an attached
\* file), fetching, streaming, returned (sendMessage returned after
\* streamChat resolved), threw (after its catch), rejected (a file read
\* rejected, and sendMessage with it).  call holds the arguments and the
\* `messages` of the closure while the files are read; req is the body of
\* the POST while fetch has not settled.  The response fields are those of
\* the reader and are reset once it is gone.
IdleSession ==
    [st |-> "idle", conv |-> Null, call |-> Null, req |-> Null, resp |-> <<>>,
     wire |-> <<>>, pos |-> 0, pending |-> <<>>, buffer |-> <<>>]

InFlight(s) == sess[s].st \in {"fetching", "streaming"}

\* what the user types; ChatArea.handleSend refuses a blank input
TypedText == <<"h", "i">>

\* the SettingsPanel state at mount
PanelInit ==
    [expanded |-> Null,
     results |-> [n \in ProviderNames |-> Null],
     testing |-> Null,
     mi |-> <<>>,
     modelSearch |-> <<>>,
     fetchingModels |-> Null,
     dynamicModels |-> [n \in ProviderNames |-> Null]]

\* no request waiting for the backend
NoPending ==
    [tests |-> {}, refreshes |-> {}, deletes |-> {}, load |-> FALSE]

\* no request about conversations waiting for the backend
NoConvPending == [selects |-> {}, removes |-> {}, load |-> FALSE]

\* App, useProviders, useConversations and the backend at start: default
\* settings (nothing saved), an empty input, the first loadProviders and
\* the first loadConversations of useEffect under way.
InitConfig ==
    /\ chatInput = <<>>
    /\ attachments = <<>>
    /\ conversations = <<>>
    /\ convStore = <<Conv1, Conv2>>
    /\ convPending = [NoConvPending EXCEPT !.load = TRUE]
    /\ settings = DEFAULT_SETTINGS
    /\ systemPrompt = <<>>
    /\ localStorage = Null
    /\ providers = <<>>
    /\ panel = PanelInit
    /\ registry = <<OpenRouter, Mine>>
    /\ pending = [NoPending EXCEPT !.load = TRUE]
    /\ deleteLog = {}
    /\ settled = Null

Init ==
    /\ InitConfig
    /\ messages = <<>>
    /\ isStreaming = FALSE
    /\ error = Null
    /\ abortRef = FALSE
    /\ convIdRef = Null
    /\ activeConvId = Null
    /\ view = "chat"
    /\ activeConversation = Null
    /\ sess = [s \in Sessions |-> IdleSession]
    /\ cbLog = [s \in Sessions |-> <<>>]
    /\ accepted = [s \in Sessions |-> <<>>]
    /\ stopped = [s \in Sessions |-> FALSE]
    /\ alone = [s \in Sessions |-> FALSE]
    /\ dropSet = {}


\* ------------------------------------------------------------- responses
He == <<"H", "e">>
llo == <<"l", "l", "o">>
Hello == <<"H", "e", "l", "l", "o">>

\* What POST /api/chat may answer in the chat specification.
Responses ==
    { <<Tok(He), Tok(llo), DoneEv>>,
      <<ConvEv(<<"7">>), Tok(<<"a">>), DoneEv>>,
      <<Tok(<<"a">>), ErrEv(<<"E">>)>>,
      <<Tok(<<"a">>), DoneEv, Tok(<<"b">>)>>,
      <<DoneEv, ErrEv(<<"E">>)>>,
      <<Tok(<<"a">>), Tok(<<"b">>)>> }

\* The lines of the stream-only specification: the four events, a line
\* that is not JSON and a line without the prefix.
EventAlphabet ==
    { Tok(<<"a">>), Tok(<<"U+E9">>), ConvEv(<<"7">>), DoneEv, ErrEv(<<"E">>),
      BadJsonEv, CommentEv }

EventSeqs(n) == UNION { [1..m -> EventAlphabet] : m \in 0..n }

\* err.message of what streamChat throws
HttpError == <<"Chat API error: 500">>
NoBodyError == <<"No response body">>
NetworkError == <<"Failed to fetch">>

\* ---------------------------------------------------------------- actions
\* App.handleSendMessage after `await chat.sendMessage(...)`: sendMessage
\* returned convIdRef.current; activeConvId is the one the call was made
\* with.  convs.loadConversations() then reloads the sidebar list.
AfterSend(s, returnedId) ==
    IF returnedId # Null /\ sess[s].conv = Null
    THEN /\ activeConvId' = returnedId
         /\ convPending' = [convPending EXCEPT !.load = TRUE]
    ELSE UNCHANGED <<activeConvId, convPending>>

\* sendMessage from `const userMessage` to the fetch of streamChat, for
\* the message content built, the `messages` of the closure and the
\* arguments of the call.
Begin(s, msgs, content, st, conv, sp) ==
    /\ messages' = UpdatedMessages(msgs, content)
                    \o << [role |-> "assistant", content |-> <<>>, sid |-> s] >>
    /\ isStreaming' = TRUE
    /\ sess' = [sess EXCEPT ![s] =
           [IdleSession EXCEPT
               !.st = "fetching",
               !.conv = conv,
               !.req = Some(RequestOf(st, msgs, content, conv, sp))]]
    /\ alone' = [t \in Sessions |-> t = s /\ \A u \in Sessions : ~InFlight(u)]

\* ChatArea.handleSend (send button or Enter) with `content` in the input
\* box and the files atts attached -> App.handleSendMessage ->
\* useChat.sendMessage up to its first await: the read of a file, or the
\* fetch of streamChat when no file is to be read.  Then handleSend empties
\* the input box and the attachments.
Send(s, content, atts) ==
    /\ view = "chat"
    /\ ~(Trim(content) = <<>> /\ Len(atts) = 0)
    /\ sess[s].st = "idle"
    /\ \A t \in 1..(s - 1) : sess[t].st # "idle"
    /\ error' = Null
    /\ abortRef' = FALSE
    /\ convIdRef' = activeConvId
    /\ dropSet' = {}
    /\ IF Awaits(atts)
       THEN /\ sess' = [sess EXCEPT ![s] =
                   [IdleSession EXCEPT
                       !.st = "reading",
                       !.conv = activeConvId,
                       !.call = Some([content |-> content, atts |-> atts,
                                      msgs |-> messages, settings |-> settings,
                                      sp |-> OrUndefined(systemPrompt)])]]
            /\ UNCHANGED <<messages, isStreaming, alone>>
       ELSE Begin(s, messages, MessageContent(content, atts), settings,
                  activeConvId, OrUndefined(systemPrompt))
    /\ chatInput' = <<>>
    /\ attachments' = <<>>
    /\ UNCHANGED <<activeConvId, nav, cbLog, accepted, stopped, cfg, convs>>

\* The user types TypedText and sends it, with no file attached.
HandleSend(s) ==
    /\ attachments = <<>>
    /\ Send(s, TypedText, <<>>)

\* The user sends what is in the input box with the files attached.
HandleSendInput(s) == Send(s, chatInput, attachments)

\* every file read of sendMessage has resolved: the rest of sendMessage up
\* to the fetch of streamChat
FilesRead(s) ==
    /\ sess[s].st = "reading"
    /\ LET c == sess[s].call[1]
       IN  Begin(s, c.msgs, MessageContent(c.content, c.atts), c.settings,
                 sess[s].conv, c.sp)
    /\ UNCHANGED <<error, abortRef, convIdRef, activeConvId, nav, cbLog,
                   accepted, stopped, dropSet, cfg, compose, convs>>

\* file.text() rejected: sendMessage rejects before its try, and
\* handleSendMessage with it
FilesReadFail(s) ==
    /\ sess[s].st = "reading"
    /\ \E i \in DOMAIN sess[s].call[1].atts :
           /\ ~IsImage(sess[s].call[1].atts[i])
           /\ IsTextFile(sess[s].call[1].atts[i])
    /\ sess' = [sess EXCEPT ![s] = [IdleSession EXCEPT !.st = "rejected"]]
    /\ UNCHANGED <<messages, isStreaming, error, abortRef, convIdRef,
                   activeConvId, nav, ghosts, cfg, compose, convs>>

\* ChatArea: onChange of the input box
OnInputChange(text) ==
    /\ view = "chat"
    /\ chatInput' = text
    /\ UNCHANGED <<chat, view, cfg, attachments, convs>>

\* ChatArea.handleFileSelect: the files chosen are appended
HandleFileSelect(files) ==
    /\ view = "chat"
    /\ Len(attachments) + Len(files) <= MaxAttachments
    /\ attachments' = attachments \o files
    /\ UNCHANGED <<chat, view, cfg, chatInput, convs>>

\* ChatArea.removeAttachment(index), from the X of a preview
RemoveAttachment(k) ==
    /\ view = "chat"
    /\ k \in DOMAIN attachments
    /\ attachments' = [j \in 1..(Len(attachments) - 1) |->
                          IF j < k THEN attachments[j] ELSE attachments[j + 1]]
    /\ UNCHANGED <<chat, view, cfg, chatInput, convs>>

\* fetch resolved with a 2xx status and a body: the read loop starts.
FetchOk(s, r) ==
    /\ sess[s].st = "fetching"
    /\ sess' = [sess EXCEPT ![s].st = "streaming", ![s].req = Null,
                            ![s].resp = r, ![s].wire = WireOf(r, TRUE)]
    /\ UNCHANGED <<messages, isStreaming, error, abortRef, convIdRef,
                   activeConvId, nav, ghosts, cfg, compose, convs>>

\* a catch that forgets setIsStreaming(false)
CaughtKeepsStreaming(s, msg) ==
    /\ error' = Some(msg)
    /\ sess' = [sess EXCEPT ![s] = [IdleSession EXCEPT !.st = "threw"]]
    /\ AfterSend(s, convIdRef)
    /\ UNCHANGED <<messages, isStreaming, abortRef, convIdRef, nav, ghosts,
                   cfg, compose, conversations, convStore>>

\* streamChat threw (fetch rejected, !res.ok, no body, or reader.read()
\* rejected): the catch of sendMessage, then its return.
Caught(s, msg) ==
    /\ error' = Some(msg)
    /\ isStreaming' = FALSE
    /\ sess' = [sess EXCEPT ![s] = [IdleSession EXCEPT !.st = "threw"]]
    /\ AfterSend(s, convIdRef)
    /\ UNCHANGED <<messages, abortRef, convIdRef, nav, ghosts, cfg,
                   compose, conversations, convStore>>

FetchFail(s, msg) ==
    /\ sess[s].st = "fetching"
    /\ Caught(s, msg)

\* One turn of the read loop with done = false: a chunk of n bytes.
Read(s, n) ==
    /\ sess[s].st = "streaming"
    /\ n \in 1..(Len(sess[s].wire) - sess[s].pos)
    /\ LET value == SubSeq(sess[s].wire, sess[s].pos + 1, sess[s].pos + n)
           dec == Utf8Decode(sess[s].pending, value, <<>>)
           parts == Split(sess[s].buffer \o dec.text)
           calls == DispatchAll(CompleteLines(parts))
           h == ApplyCalls(HookState(messages, isStreaming, error, convIdRef),
                           calls, abortRef)
       IN  /\ sess' = [sess EXCEPT ![s].pos = @ + n,
                                   ![s].pending = dec.pending,
                                   ![s].buffer = Popped(parts)]
           /\ messages' = h.messages
           /\ isStreaming' = h.isStreaming
           /\ error' = h.error
           /\ convIdRef' = h.convIdRef
           /\ cbLog' = [cbLog EXCEPT ![s] = @ \o calls]
           /\ accepted' = [accepted EXCEPT
                  ![s] = IF abortRef THEN @ ELSE @ \o TokenArgs(calls)]
           /\ dropSet' = IF abortRef /\ TokenArgs(calls) # <<>>
                         THEN dropSet \cup {s} ELSE dropSet
    /\ UNCHANGED <<abortRef, activeConvId, nav, stopped, alone, cfg,
                   compose, convs>>

\* reader.read() gave done = true: break, streamChat returns, sendMessage
\* returns convIdRef.current.
ReadEnd(s) ==
    /\ sess[s].st = "streaming"
    /\ sess[s].pos = Len(sess[s].wire)
    /\ sess' = [sess EXCEPT ![s] = [IdleSession EXCEPT !.st = "returned"]]
    /\ AfterSend(s, convIdRef)
    /\ UNCHANGED <<messages, isStreaming, error, abortRef, convIdRef, nav,
                   ghosts, cfg, compose, conversations, convStore>>

\* reader.read() rejected (the connection dropped).
ReadFail(s) ==
    /\ sess[s].st = "streaming"
    /\ Caught(s, NetworkError)

\* useChat.stopStreaming, from the stop button ChatArea shows while streaming
StopStreaming ==
    /\ view = "chat"
    /\ isStreaming
    /\ abortRef' = TRUE
    /\ stopped' = [s \in Sessions |-> stopped[s] \/ InFlight(s)]
    /\ UNCHANGED <<messages, isStreaming, error, convIdRef, activeConvId,
                   nav, sess, cbLog, accepted, alone, dropSet, cfg,
                   compose, convs>>

\* setView(v): leaving 'settings' unmounts the SettingsPanel, whose state
\* starts afresh at the next mount and whose pending test and refresh
\* promises then settle into nothing; leaving 'chat' unmounts the ChatArea
\* and its attachments with it.
SetView(v) ==
    /\ view' = v
    /\ attachments' = IF view = "chat" /\ v # "chat" THEN <<>> ELSE attachments
    /\ IF view = "settings" /\ v # "settings"
       THEN /\ panel' = PanelInit
            /\ pending' = [pending EXCEPT !.tests = {}, !.refreshes = {}]
            /\ settled' = Null
       ELSE UNCHANGED <<panel, pending, settled>>

\* App.handleNewChat: chat.clearMessages(), setActiveConvId(undefined),
\* setView('chat'), convs.setActiveConversation(null)
HandleNewChat ==
    /\ messages' = <<>>
    /\ error' = Null
    /\ activeConvId' = Null
    /\ SetView("chat")
    /\ activeConversation' = Null
    /\ alone' = [s \in Sessions |-> FALSE]
    /\ UNCHANGED <<isStreaming, abortRef, convIdRef, sess, cbLog, accepted,
                   stopped, dropSet, settings, systemPrompt, localStorage,
                   providers, registry, deleteLog, chatInput, convs>>

\* ------------------------------------------------ views and settings
\* Sidebar: onViewChange('settings'), onViewChange('prompts')
OnViewChange(v) ==
    /\ v \in {"settings", "prompts"}
    /\ SetView(v)
    /\ UNCHANGED <<chat, settings, systemPrompt, localStorage, providers,
                   registry, deleteLog, chatInput, convs>>

\* onClose of SettingsPanel and of PromptLibrary: setView('chat')
OnClose ==
    /\ view \in {"settings", "prompts"}
    /\ SetView("chat")
    /\ UNCHANGED <<chat, settings, systemPrompt, localStorage, providers,
                   registry, deleteLog, chatInput, convs>>

\* ChatArea: the system prompt textarea, onSystemPromptChange
OnSystemPromptChange(prompt) ==
    /\ view = "chat"
    /\ systemPrompt' = prompt
    /\ UNCHANGED <<chat, view, settings, localStorage, providers, panel,
                   registry, pending, deleteLog, settled, compose, convs>>

\* the settings after the onSettingsChange calls of one handler, in order
RECURSIVE MergeAll(_, _)
MergeAll(prev, partials) ==
    IF partials = <<>> THEN prev
    ELSE MergeAll(Merge(prev, Head(partials)), Tail(partials))

\* App.handleSettingsChange, once per partial: setSettings(prev => next)
\* and localStorage.setItem('dagbot_settings', JSON.stringify(next))
HandleSettingsChange(partials) ==
    /\ settings' = MergeAll(settings, partials)
    /\ localStorage' = IF partials = <<>> THEN localStorage
                       ELSE Some(MergeAll(settings, partials))

\* useProviders.loadProviders settles: setProviders(data), or the catch
LoadAnswer(ok) ==
    /\ pending.load
    /\ pending' = [pending EXCEPT !.load = FALSE]
    /\ providers' = IF ok THEN registry ELSE providers
    /\ UNCHANGED <<chat, view, settings, systemPrompt, localStorage, panel,
                   registry, deleteLog, settled, compose, convs>>

\* -------------------------------------------------------- SettingsPanel
\* the card of providers[i] is rendered
Card(i) == view = "settings" /\ i \in DOMAIN providers

IsSelected(p) == settings.provider = p.name
IsExpanded(p) == panel.expanded = Some(p.name)

\* the model area is greyed out and takes no pointer events
ModelAreaOff(p) == GetOption(settings, p.name, "auto_choose") /\ IsSelected(p)

\* SelectionCard onClick.  As every click on a card selects it, the
\* expanded card is always the selected one: the "use provider" button of
\* an expanded card that is not selected never shows.
ClickCard(i) ==
    /\ Card(i)
    /\ LET p == providers[i]
           model == IF GetOption(settings, p.name, "auto_choose")
                    THEN AutoAlias ELSE p.default_model
       IN  /\ HandleSettingsChange(
                  IF IsSelected(p) THEN <<>>
                  ELSE << [provider |-> p.name, model |-> model] >>)
           /\ panel' = [panel EXCEPT
                  !.expanded = IF IsExpanded(p) THEN Null ELSE Some(p.name)]
    /\ UNCHANGED <<chat, view, systemPrompt, providers, registry, pending,
                   deleteLog, settled, compose, convs>>

\* the free_only checkbox, shown when the provider has a catalog
ToggleFreeOnly(i) ==
    /\ Card(i)
    /\ LET p == providers[i]
       IN  /\ IsExpanded(p)
           /\ Len(p.models) > 0 \/ Len(DynamicOf(panel.dynamicModels, p.name)) > 0
           /\ HandleSettingsChange(
                  << UpdateOption(settings, p.name, "free_only",
                                  ~GetOption(settings, p.name, "free_only")) >>)
    /\ UNCHANGED <<chat, view, systemPrompt, providers, panel, registry,
                   pending, deleteLog, settled, compose, convs>>

\* the auto_choose checkbox, shown for openrouter only
ToggleAutoChoose(i) ==
    /\ Card(i)
    /\ LET p == providers[i]
           checked == ~GetOption(settings, p.name, "auto_choose")
       IN  /\ IsExpanded(p)
           /\ p.name = "openrouter"
           /\ HandleSettingsChange(
                  << UpdateOption(settings, p.name, "auto_choose", checked) >>
                  \o (IF IsSelected(p)
                      THEN << [model |-> IF checked THEN AutoAlias
                                         ELSE p.default_model] >>
                      ELSE <<>>))
    /\ UNCHANGED <<chat, view, systemPrompt, providers, panel, registry,
                   pending, deleteLog, settled, compose, convs>>

\* the search box of the model area
SetModelSearch(i, q) ==
    /\ Card(i)
    /\ IsExpanded(providers[i])
    /\ ~ModelAreaOff(providers[i])
    /\ panel' = [panel EXCEPT !.modelSearch = q]
    /\ UNCHANGED <<chat, view, settings, systemPrompt, localStorage,
                   providers, registry, pending, deleteLog, settled,
                   compose, convs>>

\* the buttons the model list shows for a provider with a catalog
Offered(p) ==
    IF CombinedModels(p, panel.dynamicModels) = <<>> THEN <<>>
    ELSE Filtered(CombinedModels(p, panel.dynamicModels),
                  GetOption(settings, p.name, "free_only"),
                  panel.modelSearch)

\* a model button: isSelected && onSettingsChange({ model: m })
PickModel(i, k) ==
    /\ Card(i)
    /\ LET p == providers[i]
       IN  /\ IsExpanded(p)
           /\ ~ModelAreaOff(p)
           /\ k \in DOMAIN Offered(p)
           /\ HandleSettingsChange(
                  IF IsSelected(p) THEN << [model |-> Offered(p)[k]] >>
                  ELSE <<>>)
    /\ UNCHANGED <<chat, view, systemPrompt, providers, panel, registry,
                   pending, deleteLog, settled, compose, convs>>

\* the model input shown instead of the list when the catalog is empty
TypeModel(i, text) ==
    /\ Card(i)
    /\ LET p == providers[i]
       IN  /\ IsExpanded(p)
           /\ ~ModelAreaOff(p)
           /\ CombinedModels(p, panel.dynamicModels) = <<>>
           /\ HandleSettingsChange(
                  IF IsSelected(p) THEN << [model |-> text] >> ELSE <<>>)
    /\ UNCHANGED <<chat, view, systemPrompt, providers, panel, registry,
                   pending, deleteLog, settled, compose, convs>>

\* the model name input of the parameters section: onChange
SetMi(text) ==
    /\ view = "settings"
    /\ panel' = [panel EXCEPT !.mi = text]
    /\ UNCHANGED <<chat, view, settings, systemPrompt, localStorage,
                   providers, registry, pending, deleteLog, settled,
                   compose, convs>>

\* the same input: onBlur, or onKeyDown with Enter
CommitMi ==
    /\ view = "settings"
    /\ HandleSettingsChange(
           IF Trim(panel.mi) # <<>> THEN << [model |-> Trim(panel.mi)] >>
           ELSE <<>>)
    /\ UNCHANGED <<chat, view, systemPrompt, providers, panel, registry,
                   pending, deleteLog, settled, compose, convs>>

\* the temperature slider (top_p, max_tokens and the penalties alike)
SetTemperature(v) ==
    /\ view = "settings"
    /\ HandleSettingsChange(<< [temperature |-> v] >>)
    /\ UNCHANGED <<chat, view, systemPrompt, providers, panel, registry,
                   pending, deleteLog, settled, compose, convs>>

\* a refresh that empties the cached list when it fails
AfterRefreshCleared(dyn, n, ok) ==
    [dyn EXCEPT ![n] = IF ok THEN Some(ListedModels(n)) ELSE Some(<<>>)]

\* dynamicModels after a refresh for n settled: replaced when response.ok
\* and the body parsed, untouched otherwise
AfterRefresh(dyn, n, ok) ==
    IF ok THEN [dyn EXCEPT ![n] = Some(ListedModels(n))] ELSE dyn

\* handleRefreshModels up to its fetch (the button is disabled while
\* fetchingModels is this provider)
RefreshStart(i) ==
    /\ Card(i)
    /\ IsExpanded(providers[i])
    /\ panel.fetchingModels # Some(providers[i].name)
    /\ panel' = [panel EXCEPT !.fetchingModels = Some(providers[i].name)]
    /\ pending' = [pending EXCEPT !.refreshes = @ \cup {providers[i].name}]
    /\ UNCHANGED <<chat, view, settings, systemPrompt, localStorage,
                   providers, registry, deleteLog, settled, compose, convs>>

\* handleRefreshModels after its fetch settled: ok is a 2xx answer with a
\* JSON body; otherwise a non-2xx answer, or a rejection caught and logged.
\* finally: setFetchingModels(null)
RefreshSettled(n, ok) ==
    /\ n \in pending.refreshes
    /\ pending' = [pending EXCEPT !.refreshes = @ \ {n}]
    /\ panel' = [panel EXCEPT
           !.dynamicModels = AfterRefresh(@, n, ok),
           !.fetchingModels = Null]
    /\ settled' = Some([op |-> "refresh", n |-> n, ok |-> ok])
    /\ UNCHANGED <<chat, view, settings, systemPrompt, localStorage,
                   providers, registry, deleteLog, compose, convs>>

\* results of a connectivity test, as the backend reports them
TestResults ==
    { [success |-> TRUE, message |-> "Connected"],
      [success |-> FALSE, message |-> "Unreachable"] }

\* the result the catch of test records
FailedResult == [success |-> FALSE, message |-> "Failed"]

\* a test whose finally forgets setTesting(null)
TestDoneKeepsTesting(pnl, n, r) ==
    [pnl EXCEPT !.results = [@ EXCEPT ![n] = Some(r)]]

\* test(n) after onTestProvider settled: setResults, then setTesting(null)
TestDone(pnl, n, r) ==
    [pnl EXCEPT !.results = [@ EXCEPT ![n] = Some(r)], !.testing = Null]

\* test(n) up to `await onTestProvider(n)` (the button is disabled while
\* testing is this provider)
TestStart(i) ==
    /\ Card(i)
    /\ IsExpanded(providers[i])
    /\ panel.testing # Some(providers[i].name)
    /\ panel' = [panel EXCEPT !.testing = Some(providers[i].name)]
    /\ pending' = [pending EXCEPT !.tests = @ \cup {providers[i].name}]
    /\ UNCHANGED <<chat, view, settings, systemPrompt, localStorage,
                   providers, registry, deleteLog, settled, compose, convs>>

\* onTestProvider(n) resolved with r
TestResolved(n, r) ==
    /\ n \in pending.tests
    /\ pending' = [pending EXCEPT !.tests = @ \ {n}]
    /\ panel' = TestDone(panel, n, r)
    /\ settled' = Some([op |-> "test", n |-> n, ok |-> TRUE])
    /\ UNCHANGED <<chat, view, settings, systemPrompt, localStorage,
                   providers, registry, deleteLog, compose, convs>>

\* onTestProvider(n) rejected (fetchJson threw): the catch
TestRejected(n) ==
    /\ n \in pending.tests
    /\ pending' = [pending EXCEPT !.tests = @ \ {n}]
    /\ panel' = TestDone(panel, n, FailedResult)
    /\ settled' = Some([op |-> "test", n |-> n, ok |-> FALSE])
    /\ UNCHANGED <<chat, view, settings, systemPrompt, localStorage,
                   providers, registry, deleteLog, compose, convs>>

\* a delete button shown on every card
DeleteShownAlways(p) == TRUE

\* {p.is_custom && <button onClick={() => onDeleteProvider(p.name)}>}
DeleteShown(p) == p.is_custom

\* the delete button: onDeleteProvider -> useProviders.removeProvider up to
\* `await api.deleteProvider(name)`
ClickDelete(i) ==
    /\ Card(i)
    /\ IsExpanded(providers[i])
    /\ DeleteShown(providers[i])
    /\ deleteLog' = deleteLog \cup {providers[i]}
    /\ pending' = [pending EXCEPT !.deletes = @ \cup {providers[i].name}]
    /\ UNCHANGED <<chat, view, settings, systemPrompt, localStorage,
                   providers, panel, registry, settled, compose, convs>>

\* the backend's remove(name): the registry without a user-added provider
\* of that name; a built-in provider is protected
RegistryRemove(reg, n) ==
    SelectSeq(reg, LAMBDA p : ~(p.name = n /\ p.is_custom))

\* DELETE /api/providers/{n} answered: on success removeProvider goes on
\* to loadProviders; a rejection leaves the hook as it was.
DeleteAnswered(n, ok) ==
    /\ n \in pending.deletes
    /\ ok => RegistryRemove(registry, n) # registry
    /\ registry' = IF ok THEN RegistryRemove(registry, n) ELSE registry
    /\ pending' = [pending EXCEPT !.deletes = @ \ {n},
                                  !.load = IF ok THEN TRUE ELSE @]
    /\ UNCHANGED <<chat, view, settings, systemPrompt, localStorage,
                   providers, panel, deleteLog, settled, compose, convs>>

\* ---------------------------------------------------------- conversations
\* the sidebar shows a row for conversation id
Row(id) == \E i \in DOMAIN conversations : conversations[i] = id

\* activeId of the Sidebar: activeConvId || convs.activeConversation?.id
SidebarActiveId ==
    IF activeConvId # Null THEN activeConvId
    ELSE IF activeConversation # Null THEN Some(activeConversation[1].id)
    ELSE Null

\* if (detail.system_prompt): neither null nor ''
Truthy(opt) == opt # Null /\ opt[1] # <<>>

\* useConversations.loadConversations settles: setConversations(data), or
\* the catch
ConversationsAnswer(ok) ==
    /\ convPending.load
    /\ convPending' = [convPending EXCEPT !.load = FALSE]
    /\ conversations' = IF ok THEN ListOf(convStore) ELSE conversations
    /\ UNCHANGED <<chat, view, cfg, compose, convStore>>

\* onClick of a row: App.handleSelectConversation(id) up to the
\* `await api.getConversation(id)` of convs.selectConversation
ClickConversation(id) ==
    /\ Row(id)
    /\ Cardinality(convPending.selects) < MaxSelects
    /\ convPending' = [convPending EXCEPT
           !.selects = @ \cup {[id |-> id, stage |-> 1]}]
    /\ UNCHANGED <<chat, view, cfg, compose, conversations, convStore>>

\* That getConversation settled: setActiveConversation(detail), or the
\* catch of selectConversation.  handleSelectConversation goes on with
\* setActiveConvId(id) and setView('chat'), up to its own
\* `await api.getConversation(id)`.
SelectLoaded(id, ok) ==
    /\ [id |-> id, stage |-> 1] \in convPending.selects
    /\ ok => Has(convStore, id)
    /\ activeConversation' = IF ok THEN Some(DetailOf(convStore, id))
                             ELSE activeConversation
    /\ activeConvId' = Some(id)
    /\ SetView("chat")
    /\ convPending' = [convPending EXCEPT
           !.selects = (@ \ {[id |-> id, stage |-> 1]})
                           \cup {[id |-> id, stage |-> 2]}]
    /\ UNCHANGED <<messages, isStreaming, error, abortRef, convIdRef, sess,
                   ghosts, settings, systemPrompt, localStorage, providers,
                   registry, deleteLog, chatInput, conversations, convStore>>

\* The second getConversation settled: chat.setMessages(detail.messages)
\* and, for a truthy detail.system_prompt, setSystemPrompt; a rejection
\* ends handleSelectConversation there.
SelectDone(id, ok) ==
    /\ [id |-> id, stage |-> 2] \in convPending.selects
    /\ ok => Has(convStore, id)
    /\ convPending' = [convPending EXCEPT
           !.selects = @ \ {[id |-> id, stage |-> 2]}]
    /\ IF ok
       THEN /\ messages' = LoadedMessages(DetailOf(convStore, id))
            /\ systemPrompt' =
                   IF Truthy(DetailOf(convStore, id).system_prompt)
                   THEN DetailOf(convStore, id).system_prompt[1]
                   ELSE systemPrompt
            /\ alone' = [s \in Sessions |-> FALSE]
       ELSE UNCHANGED <<messages, systemPrompt, alone>>
    /\ UNCHANGED <<isStreaming, error, abortRef, convIdRef, activeConvId, nav,
                   sess, cbLog, accepted, stopped, dropSet, settings,
                   localStorage, providers, panel, registry, pending,
                   deleteLog, settled, compose, conversations, convStore>>

\* The trash button of a row: convs.removeConversation(id) up to
\* `await api.deleteConversation(id)`.  active is the test
\* activeConversation?.id === id on the activeConversation of its closure.
ClickDeleteConversation(id) ==
    /\ Row(id)
    /\ Cardinality(convPending.removes) < MaxRemoves
    /\ convPending' = [convPending EXCEPT
           !.removes = @ \cup
               {[id |-> id,
                 active |-> /\ activeConversation # Null
                            /\ activeConversation[1].id = id]}]
    /\ UNCHANGED <<chat, view, cfg, compose, conversations, convStore>>

\* DELETE /api/conversations/{id} answered: on success
\* setActiveConversation(null) if the conversation was the active one,
\* then loadConversations; a rejection ends removeConversation there.
ConversationDeleteAnswered(r, ok) ==
    /\ r \in convPending.removes
    /\ ok => Has(convStore, r.id)
    /\ convStore' = IF ok THEN StoreDelete(convStore, r.id) ELSE convStore
    /\ activeConversation' = IF ok /\ r.active THEN Null
                             ELSE activeConversation
    /\ convPending' = [convPending EXCEPT
           !.removes = @ \ {r},
           !.load = IF ok THEN TRUE ELSE @]
    /\ UNCHANGED <<messages, isStreaming, error, abortRef, convIdRef,
                   activeConvId, view, sess, ghosts, cfg, compose,
                   conversations>>

\* The chunk sizes of the chat specification: a chunk ends with a line (one
\* or several lines a chunk).  The stream-only specification cuts the same
\* Read at every character.
Cuts(s) ==
    { n \in 1..(Len(sess[s].wire) - sess[s].pos) :
          sess[s].wire[sess[s].pos + n] = NL }

Next ==
    \/ \E s \in Sessions : HandleSend(s)
    \/ \E s \in Sessions, r \in Responses : FetchOk(s, r)
    \/ \E s \in Sessions, m \in {HttpError, NoBodyError, NetworkError} :
           FetchFail(s, m)
    \/ \E s \in Sessions : \E n \in Cuts(s) : Read(s, n)
    \/ \E s \in Sessions : ReadEnd(s)
    \/ \E s \in Sessions : ReadFail(s)
    \/ StopStreaming
    \/ HandleNewChat

Spec == Init /\ [][Next]_vars

\* ------------------------------------------- the stream-only specification
\* One sendMessage whose fetch has resolved, for every response of up to
\* MaxEvents lines, with or without the last '\n'; then only its read loop.
InitStream ==
    /\ \E r \in EventSeqs(MaxEvents), terminated \in BOOLEAN :
           sess = [s \in Sessions |->
                      IF s = 1
                      THEN [IdleSession EXCEPT !.st = "streaming", !.resp = r,
                                               !.wire = WireOf(r, terminated)]
                      ELSE IdleSession]
    /\ InitConfig
    /\ messages = << [role |-> "user", content |-> TypedText, sid |-> 0],
                     [role |-> "assistant", content |-> <<>>, sid |-> 1] >>
    /\ isStreaming = TRUE
    /\ error = Null
    /\ abortRef = FALSE
    /\ convIdRef = Null
    /\ activeConvId = Null
    /\ view = "chat"
    /\ activeConversation = Null
    /\ cbLog = [s \in Sessions |-> <<>>]
    /\ accepted = [s \in Sessions |-> <<>>]
    /\ stopped = [s \in Sessions |-> FALSE]
    /\ alone = [s \in Sessions |-> s = 1]
    /\ dropSet = {}

NextStream ==
    \/ \E n \in 1..Len(sess[1].wire) : Read(1, n)
    \/ ReadEnd(1)
    \/ ReadFail(1)

SpecStream == InitStream /\ [][NextStream]_vars

\* --------------------------------------- the settings-panel specification
\* what the user types into the search box and the model name inputs
Searches == { <<>>, <<"B">> }
TypedModels == { <<>>, <<" ">>, Gpt4 \o <<" ">> }

\* The settings panel alone: choosing a provider and a model, the options,
\* the search box, the model catalog and its refresh.
NextPanel ==
    \/ \E ok \in BOOLEAN : LoadAnswer(ok)
    \/ \E v \in {"settings", "prompts"} : OnViewChange(v)
    \/ OnClose
    \/ \E i \in DOMAIN providers : ClickCard(i)
    \/ \E i \in DOMAIN providers : ToggleFreeOnly(i)
    \/ \E i \in DOMAIN providers : ToggleAutoChoose(i)
    \/ \E i \in DOMAIN providers, q \in Searches : SetModelSearch(i, q)
    \/ \E i \in DOMAIN providers :
           \E k \in DOMAIN Offered(providers[i]) : PickModel(i, k)
    \/ \E i \in DOMAIN providers : TypeModel(i, Gpt4)
    \/ \E text \in TypedModels : SetMi(text)
    \/ CommitMi
    \/ \E i \in DOMAIN providers : RefreshStart(i)
    \/ \E n \in ProviderNames, ok \in BOOLEAN : RefreshSettled(n, ok)

SpecPanel == Init /\ [][NextPanel]_vars

\* ------------------------------------- the provider-registry specification
\* The provider cards with their test and delete buttons, and the provider
\* hook behind them.
NextRegistry ==
    \/ \E ok \in BOOLEAN : LoadAnswer(ok)
    \/ \E v \in {"settings", "prompts"} : OnViewChange(v)
    \/ OnClose
    \/ \E i \in DOMAIN providers : ClickCard(i)
    \/ \E i \in DOMAIN providers : TestStart(i)
    \/ \E n \in ProviderNames, r \in TestResults : TestResolved(n, r)
    \/ \E n \in ProviderNames : TestRejected(n)
    \/ \E i \in DOMAIN providers : ClickDelete(i)
    \/ \E n \in ProviderNames, ok \in BOOLEAN : DeleteAnswered(n, ok)

SpecRegistry == Init /\ [][NextRegistry]_vars

\* ---------------------------------------- the backend-switch specification
\* what POST /api/chat answers here
SwitchResponses == { <<ConvEv(<<"7">>), Tok(<<"a">>), DoneEv>> }

\* Chatting while the provider, the model, the temperature and the system
\* prompt are changed between (and during) turns.
NextSwitch ==
    \/ \E s \in Sessions : HandleSend(s)
    \/ \E s \in Sessions, r \in SwitchResponses : FetchOk(s, r)
    \/ \E s \in Sessions : \E n \in Cuts(s) : Read(s, n)
    \/ \E s \in Sessions : ReadEnd(s)
    \/ \E ok \in BOOLEAN : LoadAnswer(ok)
    \/ OnViewChange("settings")
    \/ OnClose
    \/ \E i \in DOMAIN providers : ClickCard(i)
    \/ \E i \in DOMAIN providers :
           \E k \in DOMAIN Offered(providers[i]) : PickModel(i, k)
    \/ \E v \in {"0.7", "1.0"} : SetTemperature(v)
    \/ \E prompt \in { <<>>, <<"P">> } : OnSystemPromptChange(prompt)

SpecSwitch == Init /\ [][NextSwitch]_vars

\* --------------------------------------------- the wire-noise specification
\* The lines of the wire-noise specification: the events that end a turn,
\* a token, and every kind of line that is not a recognized event.
NoiseAlphabet ==
    { Tok(<<"a">>), DoneEv, UnknownEv, ErrFieldEv(<<"E">>), NullJsonEv,
      BadJsonEv, CommentEv }

\* Like the stream-only specification, for the responses over NoiseAlphabet.
InitNoise ==
    /\ \E r \in UNION { [1..m -> NoiseAlphabet] : m \in 0..MaxEvents } :
           sess = [s \in Sessions |->
                      IF s = 1
                      THEN [IdleSession EXCEPT !.st = "streaming", !.resp = r,
                                               !.wire = WireOf(r, TRUE)]
                      ELSE IdleSession]
    /\ InitConfig
    /\ messages = << [role |-> "user", content |-> TypedText, sid |-> 0],
                     [role |-> "assistant", content |-> <<>>, sid |-> 1] >>
    /\ isStreaming = TRUE
    /\ error = Null
    /\ abortRef = FALSE
    /\ convIdRef = Null
    /\ activeConvId = Null
    /\ view = "chat"
    /\ activeConversation = Null
    /\ cbLog = [s \in Sessions |-> <<>>]
    /\ accepted = [s \in Sessions |-> <<>>]
    /\ stopped = [s \in Sessions |-> FALSE]
    /\ alone = [s \in Sessions |-> s = 1]
    /\ dropSet = {}

SpecNoise == InitNoise /\ [][NextStream]_vars

\* --------------------------------------- the conversations specification
\* The sidebar's conversations: opening and deleting them and starting a
\* new chat, with edits of the system prompt.
NextConv ==
    \/ \E ok \in BOOLEAN : ConversationsAnswer(ok)
    \/ \E id \in ConvIds : ClickConversation(id)
    \/ \E id \in ConvIds, ok \in BOOLEAN : SelectLoaded(id, ok)
    \/ \E id \in ConvIds, ok \in BOOLEAN : SelectDone(id, ok)
    \/ \E id \in ConvIds : ClickDeleteConversation(id)
    \/ \E r \in convPending.removes, ok \in BOOLEAN :
           ConversationDeleteAnswered(r, ok)
    \/ HandleNewChat
    \/ \E prompt \in { <<>>, <<"P">> } : OnSystemPromptChange(prompt)

SpecConv == Init /\ [][NextConv]_vars

\* ------------------------------------ the open-while-streaming specification
\* Opening a conversation, or starting a new chat, around one chat turn
\* and its stream.
NextOpen ==
    \/ \E ok \in BOOLEAN : ConversationsAnswer(ok)
    \/ \E id \in ConvIds : ClickConversation(id)
    \/ \E id \in ConvIds, ok \in BOOLEAN : SelectLoaded(id, ok)
    \/ \E id \in ConvIds, ok \in BOOLEAN : SelectDone(id, ok)
    \/ HandleNewChat
    \/ HandleSend(1)
    \/ FetchOk(1, <<Tok(<<"a">>), DoneEv>>)
    \/ \E n \in Cuts(1) : Read(1, n)
    \/ ReadEnd(1)

SpecOpen == Init /\ [][NextOpen]_vars

\* ------------------------------------------------ the composer specification
\* Composing one message: the input box, the attachments and sendMessage
\* up to its fetch, file reads included.
NextCompose ==
    \/ \E text \in { <<>>, <<" ">>, TypedText } : OnInputChange(text)
    \/ \E f \in Files : HandleFileSelect(<<f>>)
    \/ \E k \in DOMAIN attachments : RemoveAttachment(k)
    \/ HandleSendInput(1)
    \/ FilesRead(1)
    \/ FilesReadFail(1)
    \/ OnViewChange("prompts")
    \/ OnClose

SpecCompose == Init /\ [][NextCompose]_vars


\* ------------------------------------------------------ helpers of claims
\* the token events of a response, in order
RECURSIVE EventTokens(_)
EventTokens(evs) ==
    IF evs = <<>> THEN <<>>
    ELSE IF Head(evs).k = "token"
    THEN <<Head(evs).v>> \o EventTokens(Tail(evs))
    ELSE EventTokens(Tail(evs))

\* t1 + ... + tn
RECURSIVE Concat(_)
Concat(toks) ==
    IF toks = <<>> THEN <<>> ELSE Head(toks) \o Concat(Tail(toks))

\* how many '\n' session s has read so far
NewlinesRead(s) ==
    Cardinality({ i \in 1..sess[s].pos : sess[s].wire[i] = NL })

\* indexes of the terminal invocations (onDone, onError) in a callback log
Terminals(log) == { i \in DOMAIN log : log[i].cb \in {"onDone", "onError"} }

\* a log of tokens (and conversation ids) closed by exactly one onDone
TokensThenDone(log) ==
    /\ log # <<>>
    /\ log[Len(log)].cb = "onDone"
    /\ \A i \in 1..(Len(log) - 1) : log[i].cb \in {"onToken", "onConversationId"}

NoneInFlight == \A t \in Sessions : ~InFlight(t)

\* ------------------------------------------------------------------ C1
\* C1: for a response made of newline-terminated lines, cut into read
\* chunks at any characters, the tokens handed to onToken are at every
\* moment exactly the token events of the lines read so far, in order; once
\* every byte is read they are all the token events of the response.
C1_TokensInOrder ==
    \A s \in Sessions :
        (sess[s].st = "streaming" /\ sess[s].wire = WireOf(sess[s].resp, TRUE))
        => /\ TokenArgs(cbLog[s])
                = EventTokens(SubSeq(sess[s].resp, 1, NewlinesRead(s)))
           /\ sess[s].pos = Len(sess[s].wire)
                => TokenArgs(cbLog[s]) = EventTokens(sess[s].resp)

\* C1 witness: a response of two token lines, wholly read: "a", then e-acute.
C1_Witness ==
    /\ sess[1].st = "streaming"
    /\ sess[1].resp = <<Tok(<<"a">>), Tok(<<"U+E9">>)>>
    /\ sess[1].wire = WireOf(sess[1].resp, TRUE)
    /\ sess[1].pos = Len(sess[1].wire)
    /\ TokenArgs(cbLog[1]) = << <<"a">>, <<"U+E9">> >>

\* ------------------------------------------------------------------ C2
\* C2: once onDone or onError has been invoked for a session, onToken is
\* not invoked for it any more.
C2_NoTokenAfterTerminal ==
    \A s \in Sessions :
        \A i \in Terminals(cbLog[s]) :
            \A j \in DOMAIN cbLog[s] : j > i => cbLog[s][j].cb # "onToken"

\* ------------------------------------------------------------------ C3
\* C3: a session sees at most one terminal callback: never both onDone and
\* onError, and neither twice.
C3_OneTerminal ==
    \A s \in Sessions : Cardinality(Terminals(cbLog[s])) <= 1

\* ------------------------------------------------------------------ C4
\* C4: when the stream of every started session has ended and none of them
\* was cancelled, isStreaming is false again (also when a stream closed
\* without a done or error event).
C4_EndedMeansNotStreaming ==
    ( /\ NoneInFlight
      /\ \E s \in Sessions : sess[s].st \in {"returned", "threw"}
      /\ \A s \in Sessions : ~stopped[s] )
    => ~isStreaming

\* ------------------------------------------------------------------ C5
\* C5: after stopStreaming was called during a session, no callback of
\* that session changes the message list any more, whatever happened in
\* between.
C5_NoAppendAfterStop ==
    [][ \A s \in Sessions :
            (stopped[s] /\ cbLog'[s] # cbLog[s]) => messages' = messages ]_vars

\* ------------------------------------------------------------------ C6
\* C6: once stopStreaming was called, the next turn of the session's read
\* loop ends the loop and isStreaming becomes false.
C6_StopEndsLoop ==
    [][ \A s \in Sessions :
            (stopped[s] /\ sess[s].st = "streaming" /\ sess'[s] # sess[s])
            => (sess'[s].st # "streaming" /\ ~isStreaming') ]_vars

\* ------------------------------------------------------------------ C7
\* C7: when no session is in flight any more, every assistant message holds
\* the in-order concatenation of the tokens its own session appended, and
\* nothing else.
C7_OwnTokensOnly ==
    NoneInFlight
    => \A i \in DOMAIN messages :
           (messages[i].role = "assistant" /\ messages[i].sid \in Sessions)
           => messages[i].content = Concat(accepted[messages[i].sid])

\* ------------------------------------------------------------------ C8
\* C8: one cancellation suppresses the tokens of at most one session.
C8_StopHitsOneSession == Cardinality(dropSet) <= 1

\* ------------------------------------------------------------------ C9
\* C9: at the moment a session ends in error (an error event is the last
\* thing dispatched, or the read failed), its assistant message holds the
\* concatenation of the tokens it was given, error is set and isStreaming
\* is false.
C9_PartialKeptOnError ==
    [][ \A s \in Sessions :
            ( \/ /\ cbLog'[s] # cbLog[s]
                 /\ cbLog'[s][Len(cbLog'[s])].cb = "onError"
              \/ /\ sess[s].st = "streaming"
                 /\ sess'[s].st = "threw" )
            => /\ \A i \in DOMAIN messages' :
                      messages'[i].sid = s
                      => messages'[i].content = Concat(accepted'[s])
               /\ error' # Null
               /\ ~isStreaming' ]_vars

C11_RejectionOpensNoSession ==
    [][ \A s \in Sessions :
            FetchFail(s, HttpError)
            => /\ cbLog'[s] = <<>>
               /\ sess'[s].st = "threw"
               /\ sess'[s].wire = <<>> /\ sess'[s].pos = 0
               /\ error' = Some(HttpError)
               /\ ~isStreaming' ]_vars

\* C11 witness: a send that was answered 500.
C11_Witness ==
    \E s \in Sessions :
        /\ sess[s].st = "threw"
        /\ cbLog[s] = <<>>
        /\ error = Some(HttpError)
        /\ ~isStreaming

\* ------------------------------------------------------------------ C12
\* C12: the messages of the request sendMessage makes are the list held
\* when it was called, in order and with the same roles and contents,
\* followed by the new user message: it is the new list without its last
\* element, the empty assistant placeholder of the new turn.
C12_RequestKeepsOrder ==
    [][ \A s \in Sessions :
            (sess[s].st = "idle" /\ sess'[s].st = "fetching")
            => LET sent == sess'[s].req[1].messages
               IN  /\ Len(sent) = Len(messages) + 1
                   /\ \A i \in 1..Len(messages) : sent[i] = ToWire(messages[i])
                   /\ sent[Len(sent)] = [role |-> "user", content |-> TypedText]
                   /\ Len(messages') = Len(sent) + 1
                   /\ \A i \in 1..Len(sent) : sent[i] = ToWire(messages'[i])
                   /\ messages'[Len(messages')].sid = s ]_vars

\* C12 witness: a second request in flight whose history holds the first
\* turn with its answer "Hello".
C12_Witness ==
    \E s \in Sessions :
        /\ sess[s].st = "fetching"
        /\ sess[s].req # Null
        /\ sess[s].req[1].messages =
               << [role |-> "user", content |-> TypedText],
                  [role |-> "assistant", content |-> Hello],
                  [role |-> "user", content |-> TypedText] >>

\* ------------------------------------------------------------------ C13
\* C13: a step that changes the selected provider or model changes neither
\* the message list nor the active conversation id nor the system prompt;
\* and every sendMessage posts the provider and model selected at that
\* time, the active conversation id, the system prompt and the whole list
\* of messages held, in order, before the new user message.
C13_SwitchKeepsContext ==
    [][ /\ (settings'.provider # settings.provider
             \/ settings'.model # settings.model)
            => /\ messages' = messages
               /\ activeConvId' = activeConvId
               /\ systemPrompt' = systemPrompt
        /\ \A s \in Sessions :
               (sess[s].st = "idle" /\ sess'[s].st = "fetching")
               => LET rq == sess'[s].req[1]
                  IN  /\ rq.provider = settings.provider
                      /\ rq.model = settings.model
                      /\ rq.conversation_id = activeConvId
                      /\ rq.system_prompt =
                             (IF systemPrompt = <<>> THEN Null
                              ELSE Some(systemPrompt))
                      /\ Len(rq.messages) = Len(messages) + 1
                      /\ \A i \in 1..Len(messages) :
                             rq.messages[i] = ToWire(messages[i]) ]_vars

\* C13 witness: a first turn answered through openrouter in conversation
\* 7, then the provider switched to "mine", then a second request: it names
\* "mine" and its default model, conversation 7, and holds the first turn.
C13_Witness ==
    \E s \in Sessions :
        /\ sess[s].st = "fetching"
        /\ sess[s].req # Null
        /\ sess[s].req[1].provider = "mine"
        /\ sess[s].req[1].model = Dmodel
        /\ sess[s].req[1].conversation_id = Some(<<"7">>)
        /\ sess[s].req[1].system_prompt = Some(<<"P">>)
        /\ sess[s].req[1].messages =
               << [role |-> "user", content |-> TypedText],
                  [role |-> "assistant", content |-> <<"a">>],
                  [role |-> "user", content |-> TypedText] >>

\* ------------------------------------------------------------------ C14
\* C14: whenever auto_choose is set for the selected provider, the model
\* of the settings, which the next chat request carries, is the automatic
\* alias 'openrouter/auto'.
C14_AutoChooseGivesAlias ==
    GetOption(settings, settings.provider, "auto_choose")
    => /\ settings.model = AutoAlias
       /\ RequestOf(settings, messages, TypedText, activeConvId,
                    OrUndefined(systemPrompt)).model = AutoAlias

\* ------------------------------------------------------------------ C15
\* the elements of a list
Elements(list) == { list[k] : k \in DOMAIN list }

\* a name carrying the free-tier marker: it ends in ':free'
IsFreeMarked(m) == EndsWith(Lower(m), FreeMarker)

\* C15: on an expanded card with free_only set and an empty search box,
\* the model list shows, once each, exactly the names among the static
\* and the refreshed models that carry the ':free' marker.
C15_FreeOnlyListsMarked ==
    \A i \in DOMAIN providers :
        ( /\ view = "settings"
          /\ IsExpanded(providers[i])
          /\ GetOption(settings, providers[i].name, "free_only")
          /\ panel.modelSearch = <<>> )
        => /\ Elements(Offered(providers[i]))
                = { m \in Elements(providers[i].models) \cup
                          Elements(DynamicOf(panel.dynamicModels,
                                             providers[i].name)) :
                        IsFreeMarked(m) }
           /\ Cardinality(Elements(Offered(providers[i])))
                = Len(Offered(providers[i]))

\* ------------------------------------------------------------------ C16
\* C16: when free_only is set and auto_choose is not for the selected
\* provider, and its catalog is not empty but holds no free-tier entry, the
\* model of the settings, which the next chat request carries, is the
\* provider's default_model.
C16_NoFreeFallsBackToDefault ==
    \A i \in DOMAIN providers :
        ( /\ IsSelected(providers[i])
          /\ GetOption(settings, providers[i].name, "free_only")
          /\ ~GetOption(settings, providers[i].name, "auto_choose")
          /\ CombinedModels(providers[i], panel.dynamicModels) # <<>>
          /\ \A m \in Elements(CombinedModels(providers[i],
                                               panel.dynamicModels)) :
                 ~IsFree(m) )
        => RequestOf(settings, messages, TypedText, activeConvId,
                     OrUndefined(systemPrompt)).model
               = providers[i].default_model

\* ------------------------------------------------------------------ C17
\* C17: every provider api.deleteProvider was ever called for was a custom
\* provider (is_custom true) when the request was made.
C17_OnlyCustomDeleted == \A p \in deleteLog : p.is_custom

\* C17 witness: the custom provider "mine" was deleted and is gone from
\* the list, the built-in one is still there.
C17_Witness ==
    /\ \E p \in deleteLog : p.name = "mine"
    /\ providers = <<OpenRouter>>

\* ------------------------------------------------------------------ C18
\* C18: when the test of provider n settles in the open panel, whether
\* onTestProvider resolved or rejected, results[n] is set (to the result
\* returned, or to a success = false result after a rejection) and
\* testing is null.
C18_TestAlwaysRecordsResult ==
    [][ \A n \in ProviderNames :
            /\ \A r \in TestResults :
                   TestResolved(n, r)
                   => /\ panel'.results[n] = Some(r)
                      /\ panel'.testing = Null
            /\ TestRejected(n)
                   => /\ panel'.results[n] # Null
                      /\ panel'.results[n][1].success = FALSE
                      /\ panel'.testing = Null ]_vars

\* C18 witness: a test of "mine" was rejected and recorded as a failure.
C18_Witness ==
    /\ settled = Some([op |-> "test", n |-> "mine", ok |-> FALSE])
    /\ panel.results["mine"] = Some(FailedResult)
    /\ panel.testing = Null

\* ------------------------------------------------------------------ C19
\* C19: a refresh for provider n that fails leaves dynamicModels as it was,
\* for n and for every other provider, and sets fetchingModels to null;
\* while the panel stays open, dynamicModels changes only in a step where
\* a refresh succeeded, and then only for that provider.
C19_FailedRefreshKeepsCatalog ==
    [][ /\ \A n \in ProviderNames :
               RefreshSettled(n, FALSE)
               => /\ panel'.dynamicModels = panel.dynamicModels
                  /\ panel'.fetchingModels = Null
        /\ (panel'.dynamicModels # panel.dynamicModels /\ view' = "settings")
               => \E n \in ProviderNames :
                      /\ RefreshSettled(n, TRUE)
                      /\ \A m \in ProviderNames \ {n} :
                             panel'.dynamicModels[m] = panel.dynamicModels[m]
      ]_vars

\* C19 witness: a refresh for openrouter failed after an earlier one had
\* filled its catalog and that of "mine": both are still cached.
C19_Witness ==
    /\ settled = Some([op |-> "refresh", n |-> "openrouter", ok |-> FALSE])
    /\ panel.dynamicModels["openrouter"] = Some(ListedModels("openrouter"))
    /\ panel.dynamicModels["mine"] = Some(ListedModels("mine"))
    /\ panel.fetchingModels = Null

\* ------------------------------------------------------------------ C20
\* the callback a recognized event stands for
CallbackOf(k) ==
    CASE k = "token" -> "onToken"
      [] k = "conversation_id" -> "onConversationId"
      [] k = "done" -> "onDone"
      [] k = "error" -> "onError"

\* the invocations due for a sequence of lines: one for each recognized
\* event (token, conversation_id, done, error), none for any other line
RECURSIVE DueCalls(_)
DueCalls(evs) ==
    IF evs = <<>> THEN <<>>
    ELSE (IF Head(evs).k \in {"token", "conversation_id", "done", "error"}
          THEN << [cb |-> CallbackOf(Head(evs).k), arg |-> Head(evs).v] >>
          ELSE <<>>)
         \o DueCalls(Tail(evs))

\* C20: the callbacks invoked so far are exactly those of the recognized
\* events among the lines read so far, in order: a line without the
\* prefix, invalid JSON, a JSON value that is no object or an object of
\* another type invokes nothing, and the events after it are dispatched.
C20_NoiseIsIgnored ==
    \A s \in Sessions :
        (sess[s].st = "streaming" /\ sess[s].wire = WireOf(sess[s].resp, TRUE))
        => cbLog[s] = DueCalls(SubSeq(sess[s].resp, 1, NewlinesRead(s)))

\* ------------------------------------------------------------------ C21
\* in this step sendMessage of session s builds its user message
Builds(s) == sess[s].st \in {"idle", "reading"} /\ sess'[s].st = "fetching"

\* what was typed and attached for the message session s builds
TypedOf(s) ==
    IF sess[s].st = "reading" THEN sess[s].call[1].content ELSE chatInput
AttachedOf(s) ==
    IF sess[s].st = "reading" THEN sess[s].call[1].atts ELSE attachments

\* the content of the user message session s posts
BuiltContent(s) ==
    sess'[s].req[1].messages[Len(sess'[s].req[1].messages)].content

\* a text of spaces only (or empty)
IsBlank(text) == \A i \in DOMAIN text : text[i] = " "

\* the attachments that are image files or text/code files, in order
Kept(atts) == SelectSeq(atts, LAMBDA f : IsImage(f) \/ IsTextFile(f))

\* C21: the content of the user message sendMessage builds is the typed
\* string unchanged when nothing is attached; with attachments it is a part
\* list: a text part holding the typed text, only if that is not blank,
\* then one part for each attachment that is an image file (image_url,
\* its data URL) or a text/code file (text, its name and text), in the
\* order of selection, and nothing for any other file.
C21_ContentFromTextAndFiles ==
    [][ \A s \in Sessions :
            Builds(s)
            => IF AttachedOf(s) = <<>>
               THEN BuiltContent(s) = TypedOf(s)
               ELSE LET ps == BuiltContent(s).parts
                        off == IF IsBlank(TypedOf(s)) THEN 0 ELSE 1
                        kept == Kept(AttachedOf(s))
                    IN  /\ Len(ps) = off + Len(kept)
                        /\ off = 1
                               => ps[1] = [type |-> "text", text |-> TypedOf(s)]
                        /\ \A j \in DOMAIN kept :
                               IF IsImage(kept[j])
                               THEN /\ ps[off + j].type = "image_url"
                                    /\ ps[off + j].image_url.url
                                           = DataUrl(kept[j])
                               ELSE /\ ps[off + j].type = "text"
                                    /\ ps[off + j].text = FileText(kept[j])
      ]_vars

\* C21 witness: "hi" sent with a PDF and a PNG attached: the request holds
\* the typed text, then the image, and nothing for the PDF.
C21_Witness ==
    \E s \in Sessions :
        /\ sess[s].st = "fetching"
        /\ sess[s].req # Null
        /\ sess[s].req[1].messages[Len(sess[s].req[1].messages)].content
               = [parts |-> << [type |-> "text", text |-> TypedText],
                               [type |-> "image_url",
                                image_url |-> [url |-> DataUrl(Png)]] >>]

\* ------------------------------------------------------------------ C22
\* C22: no sendMessage starts while isStreaming is true, so that at most
\* one session is in flight at a time.
C22_OneSessionAtATime ==
    [][ \A s \in Sessions :
            (sess[s].st = "idle" /\ sess'[s].st # "idle")
            => /\ ~isStreaming
               /\ \A t \in Sessions : ~InFlight(t) ]_vars

\* ------------------------------------------------------------------ C23
\* the list shown starts with the messages of a stored conversation
Shows(msgs, c) ==
    /\ Len(msgs) >= Len(c.messages)
    /\ SubSeq(msgs, 1, Len(c.messages)) = LoadedMessages(c)

\* C23: when the list shows the messages loaded for a conversation, a
\* step in which a session of another conversation (its sendMessage was
\* called with another conversation id and has no message of its own in
\* the list) invokes callbacks leaves those messages as they were loaded.
C23_TokensStayInTheirConversation ==
    [][ \A s \in Sessions :
            ( /\ cbLog'[s] # cbLog[s]
              /\ sess[s].conv # activeConvId
              /\ \A i \in DOMAIN messages : messages[i].sid # s )
            => \A c \in {Conv1, Conv2} :
                   Shows(messages, c) => Shows(messages', c) ]_vars

\* ------------------------------------------------------------------ C24
\* C24: activeConvId leaves undefined only when a sendMessage returns whose
\* message is in the list shown, that is one called since the list was
\* last emptied by New Chat; and the first message of a chat (sent from an
\* empty list) is posted without a conversation_id.
C24_NewChatStaysUnbound ==
    [][ /\ (activeConvId = Null /\ activeConvId' # Null)
            => \E s \in Sessions :
                   /\ InFlight(s) /\ ~InFlight(s)'
                   /\ \E i \in DOMAIN messages : messages[i].sid = s
        /\ \A s \in Sessions :
               (Builds(s) /\ messages = <<>>)
               => sess'[s].req[1].conversation_id = Null ]_vars

\* ------------------------------------------------------------------ C25
\* C25: when streamChat returns from a response whose last line is a done
\* event, with or without a '\n' after it, the last callback it invoked is
\* onDone.
C25_LastLineDispatched ==
    [][ \A s \in Sessions :
            ( /\ sess[s].st = "streaming"
              /\ sess'[s].st = "returned"
              /\ sess[s].resp # <<>>
              /\ sess[s].resp[Len(sess[s].resp)] = DoneEv )
            => /\ cbLog'[s] # <<>>
               /\ cbLog'[s][Len(cbLog'[s])].cb = "onDone" ]_vars

\* ------------------------------------------------------------------ C26
\* C26: once a conversation is deleted from the store and no removal,
\* no reload of the list and no opening of a conversation is under way, it
\* is neither activeConvId nor the sidebar's active id, and a chat request
\* would not carry its id.
C26_DeletedConversationNotActive ==
    \A id \in ConvIds :
        ( /\ ~Has(convStore, id)
          /\ convPending.removes = {}
          /\ convPending.selects = {}
          /\ ~convPending.load )
        => /\ activeConvId # Some(id)
           /\ SidebarActiveId # Some(id)
           /\ RequestOf(settings, messages, TypedText, activeConvId,
                        OrUndefined(systemPrompt)).conversation_id # Some(id)

\* ------------------------------------------------------------------ C27
\* C27: when a sendMessage is made after one that threw before any
\* callback (a non-2xx answer or a network error), the messages it posts
\* do not hold the failed turn's assistant message with empty content.
C27_FailedSendLeavesNoTrace ==
    [][ \A s \in Sessions :
            Builds(s)
            => \A t \in Sessions :
                   (sess[t].st = "threw" /\ cbLog[t] = <<>>)
                   => \A i \in DOMAIN messages :
                          ( /\ messages[i].sid = t
                            /\ i \in DOMAIN sess'[s].req[1].messages )
                          => ~( /\ sess'[s].req[1].messages[i].role = "assistant"
                                /\ sess'[s].req[1].messages[i].content = <<>> )
      ]_vars

\* ------------------------------------------------------------------ C28
\* C28: when handleSelectConversation(id) completes, the system prompt is
\* the one stored with conversation id, empty when it has none, and that
\* is what a chat request would carry.
C28_SelectLoadsOwnPrompt ==
    [][ \A id \in ConvIds :
            SelectDone(id, TRUE)
            => /\ systemPrompt' =
                      (IF DetailOf(convStore, id).system_prompt = Null
                       THEN <<>>
                       ELSE DetailOf(convStore, id).system_prompt[1])
               /\ OrUndefined(systemPrompt')
                      = DetailOf(convStore, id).system_prompt ]_vars

\* ------------------------------------------------------------------ C29
\* C29: once a provider deleted from its card (the expanded card, which is
\* the selected one) is gone from the provider list, settings.provider
\* names a provider of the list, and the provider a chat request would
\* carry is not the deleted one.
C29_DeletedProviderNotSelected ==
    \A p \in deleteLog :
        (\A i \in DOMAIN providers : providers[i].name # p.name)
        => /\ \E i \in DOMAIN providers : providers[i].name = settings.provider
           /\ RequestOf(settings, messages, TypedText, activeConvId,
                        OrUndefined(systemPrompt)).provider # p.name

\* ------------------------------------------------------------------ C30
\* C30: the user message sendMessage builds for what handleSend accepted
\* has a content that is not the empty string and not an empty part list.
C30_UserMessageNotEmpty ==
    [][ \A s \in Sessions :
            Builds(s)
            => IF AttachedOf(s) = <<>>
               THEN BuiltContent(s) # <<>>
               ELSE BuiltContent(s).parts # <<>> ]_vars

====
